---- MODULE Spec2Model ----
(***************************************************************************)
(* A model of the Conan recipe of ArffFiles (conanfile.py): the recipe     *)
(* methods init, layout, generate, build, package and package_info, acting *)
(* on the source folder, the build folder and the package folder.          *)
(*                                                                         *)
(* Text is a sequence of one-character strings, a file's content a         *)
(* sequence of lines (readlines() without the line terminators: the        *)
(* pattern of init needs digits after its whitespace, so a terminator at    *)
(* the end of a line never makes or breaks a match), a                     *)
(* relative path a sequence of path segments.                              *)
(***************************************************************************)
EXTENDS Integers, Sequences, FiniteSets, TLC

\* Bounds of the model.
MaxLines == 2
MaxPathLen == 3

(***************************************************************************)
(* Files and folders.                                                      *)
(***************************************************************************)
NoFile == [present |-> FALSE, text |-> <<>>]
File(t) == [present |-> TRUE, text |-> t]

CMakeLists == <<"CMakeLists.txt">>
CMakeListsConan == <<"CMakeLists_conan.txt">>
CMakeListsBackup == <<"CMakeLists_backup.txt">>
ConfigHeader == <<"configured_files", "include", "arffFiles_config.h">>

\* The relative paths the model tracks in each folder.
SourcePaths ==
    { CMakeLists, CMakeListsConan, CMakeListsBackup,
      <<"ArffFiles.hpp">>, <<"LICENSE">>, <<"README.md">>,
      <<"readme.md">>, <<"Other.hpp">>, <<"config", "CMakeLists.txt">> }
BuildPaths ==
    { ConfigHeader, <<"CMakeCache.txt">>,
      <<"generators", "conan_toolchain.cmake">>,
      <<"generators", "Catch2Config.cmake">> }
PackageNames ==
    { "ArffFiles.hpp", "arffFiles_config.h", "LICENSE", "README.md",
      "readme.md", "Other.hpp", "CMakeLists.txt", "CMakeLists_conan.txt",
      "CMakeLists_backup.txt", "CMakeCache.txt", "conan_toolchain.cmake",
      "Catch2Config.cmake" }

\* Opaque contents of the files that are not descriptors.
Opaque(name) == << <<name>> >>

(***************************************************************************)
(* init: the version pattern.                                              *)
(***************************************************************************)
Placeholder == <<"X", ".", "X", ".", "X">>
VersionToken == <<"V", "E", "R", "S", "I", "O", "N">>
\* \d of a str pattern: every Unicode decimal digit (category Nd). A character
\* outside printable ASCII other than \t, \n, \r, \f is written by its code
\* point, "U+0661".
UnicodeDigits ==
    { "U+0660", "U+0661", "U+0662", "U+0663", "U+0664", "U+0665", "U+0666",
      "U+0667", "U+0668", "U+0669", "U+06F0", "U+06F1", "U+06F2", "U+06F3",
      "U+06F4", "U+06F5", "U+06F6", "U+06F7", "U+06F8", "U+06F9", "U+07C0",
      "U+07C1", "U+07C2", "U+07C3", "U+07C4", "U+07C5", "U+07C6", "U+07C7",
      "U+07C8", "U+07C9", "U+0966", "U+0967", "U+0968", "U+0969", "U+096A",
      "U+096B", "U+096C", "U+096D", "U+096E", "U+096F", "U+09E6", "U+09E7",
      "U+09E8", "U+09E9", "U+09EA", "U+09EB", "U+09EC", "U+09ED", "U+09EE",
      "U+09EF", "U+0A66", "U+0A67", "U+0A68", "U+0A69", "U+0A6A", "U+0A6B",
      "U+0A6C", "U+0A6D", "U+0A6E", "U+0A6F", "U+0AE6", "U+0AE7", "U+0AE8",
      "U+0AE9", "U+0AEA", "U+0AEB", "U+0AEC", "U+0AED", "U+0AEE", "U+0AEF",
      "U+0B66", "U+0B67", "U+0B68", "U+0B69", "U+0B6A", "U+0B6B", "U+0B6C",
      "U+0B6D", "U+0B6E", "U+0B6F", "U+0BE6", "U+0BE7", "U+0BE8", "U+0BE9",
      "U+0BEA", "U+0BEB", "U+0BEC", "U+0BED", "U+0BEE", "U+0BEF", "U+0C66",
      "U+0C67", "U+0C68", "U+0C69", "U+0C6A", "U+0C6B", "U+0C6C", "U+0C6D",
      "U+0C6E", "U+0C6F", "U+0CE6", "U+0CE7", "U+0CE8", "U+0CE9", "U+0CEA",
      "U+0CEB", "U+0CEC", "U+0CED", "U+0CEE", "U+0CEF", "U+0D66", "U+0D67",
      "U+0D68", "U+0D69", "U+0D6A", "U+0D6B", "U+0D6C", "U+0D6D", "U+0D6E",
      "U+0D6F", "U+0DE6", "U+0DE7", "U+0DE8", "U+0DE9", "U+0DEA", "U+0DEB",
      "U+0DEC", "U+0DED", "U+0DEE", "U+0DEF", "U+0E50", "U+0E51", "U+0E52",
      "U+0E53", "U+0E54", "U+0E55", "U+0E56", "U+0E57", "U+0E58", "U+0E59",
      "U+0ED0", "U+0ED1", "U+0ED2", "U+0ED3", "U+0ED4", "U+0ED5", "U+0ED6",
      "U+0ED7", "U+0ED8", "U+0ED9", "U+0F20", "U+0F21", "U+0F22", "U+0F23",
      "U+0F24", "U+0F25", "U+0F26", "U+0F27", "U+0F28", "U+0F29", "U+1040",
      "U+1041", "U+1042", "U+1043", "U+1044", "U+1045", "U+1046", "U+1047",
      "U+1048", "U+1049", "U+1090", "U+1091", "U+1092", "U+1093", "U+1094",
      "U+1095", "U+1096", "U+1097", "U+1098", "U+1099", "U+17E0", "U+17E1",
      "U+17E2", "U+17E3", "U+17E4", "U+17E5", "U+17E6", "U+17E7", "U+17E8",
      "U+17E9", "U+1810", "U+1811", "U+1812", "U+1813", "U+1814", "U+1815",
      "U+1816", "U+1817", "U+1818", "U+1819", "U+1946", "U+1947", "U+1948",
      "U+1949", "U+194A", "U+194B", "U+194C", "U+194D", "U+194E", "U+194F",
      "U+19D0", "U+19D1", "U+19D2", "U+19D3", "U+19D4", "U+19D5", "U+19D6",
      "U+19D7", "U+19D8", "U+19D9", "U+1A80", "U+1A81", "U+1A82", "U+1A83",
      "U+1A84", "U+1A85", "U+1A86", "U+1A87", "U+1A88", "U+1A89", "U+1A90",
      "U+1A91", "U+1A92", "U+1A93", "U+1A94", "U+1A95", "U+1A96", "U+1A97",
      "U+1A98", "U+1A99", "U+1B50", "U+1B51", "U+1B52", "U+1B53", "U+1B54",
      "U+1B55", "U+1B56", "U+1B57", "U+1B58", "U+1B59", "U+1BB0", "U+1BB1",
      "U+1BB2", "U+1BB3", "U+1BB4", "U+1BB5", "U+1BB6", "U+1BB7", "U+1BB8",
      "U+1BB9", "U+1C40", "U+1C41", "U+1C42", "U+1C43", "U+1C44", "U+1C45",
      "U+1C46", "U+1C47", "U+1C48", "U+1C49", "U+1C50", "U+1C51", "U+1C52",
      "U+1C53", "U+1C54", "U+1C55", "U+1C56", "U+1C57", "U+1C58", "U+1C59",
      "U+A620", "U+A621", "U+A622", "U+A623", "U+A624", "U+A625", "U+A626",
      "U+A627", "U+A628", "U+A629", "U+A8D0", "U+A8D1", "U+A8D2", "U+A8D3",
      "U+A8D4", "U+A8D5", "U+A8D6", "U+A8D7", "U+A8D8", "U+A8D9", "U+A900",
      "U+A901", "U+A902", "U+A903", "U+A904", "U+A905", "U+A906", "U+A907",
      "U+A908", "U+A909", "U+A9D0", "U+A9D1", "U+A9D2", "U+A9D3", "U+A9D4",
      "U+A9D5", "U+A9D6", "U+A9D7", "U+A9D8", "U+A9D9", "U+A9F0", "U+A9F1",
      "U+A9F2", "U+A9F3", "U+A9F4", "U+A9F5", "U+A9F6", "U+A9F7", "U+A9F8",
      "U+A9F9", "U+AA50", "U+AA51", "U+AA52", "U+AA53", "U+AA54", "U+AA55",
      "U+AA56", "U+AA57", "U+AA58", "U+AA59", "U+ABF0", "U+ABF1", "U+ABF2",
      "U+ABF3", "U+ABF4", "U+ABF5", "U+ABF6", "U+ABF7", "U+ABF8", "U+ABF9",
      "U+FF10", "U+FF11", "U+FF12", "U+FF13", "U+FF14", "U+FF15", "U+FF16",
      "U+FF17", "U+FF18", "U+FF19", "U+104A0", "U+104A1", "U+104A2",
      "U+104A3", "U+104A4", "U+104A5", "U+104A6", "U+104A7", "U+104A8",
      "U+104A9", "U+10D30", "U+10D31", "U+10D32", "U+10D33", "U+10D34",
      "U+10D35", "U+10D36", "U+10D37", "U+10D38", "U+10D39", "U+11066",
      "U+11067", "U+11068", "U+11069", "U+1106A", "U+1106B", "U+1106C",
      "U+1106D", "U+1106E", "U+1106F", "U+110F0", "U+110F1", "U+110F2",
      "U+110F3", "U+110F4", "U+110F5", "U+110F6", "U+110F7", "U+110F8",
      "U+110F9", "U+11136", "U+11137", "U+11138", "U+11139", "U+1113A",
      "U+1113B", "U+1113C", "U+1113D", "U+1113E", "U+1113F", "U+111D0",
      "U+111D1", "U+111D2", "U+111D3", "U+111D4", "U+111D5", "U+111D6",
      "U+111D7", "U+111D8", "U+111D9", "U+112F0", "U+112F1", "U+112F2",
      "U+112F3", "U+112F4", "U+112F5", "U+112F6", "U+112F7", "U+112F8",
      "U+112F9", "U+11450", "U+11451", "U+11452", "U+11453", "U+11454",
      "U+11455", "U+11456", "U+11457", "U+11458", "U+11459", "U+114D0",
      "U+114D1", "U+114D2", "U+114D3", "U+114D4", "U+114D5", "U+114D6",
      "U+114D7", "U+114D8", "U+114D9", "U+11650", "U+11651", "U+11652",
      "U+11653", "U+11654", "U+11655", "U+11656", "U+11657", "U+11658",
      "U+11659", "U+116C0", "U+116C1", "U+116C2", "U+116C3", "U+116C4",
      "U+116C5", "U+116C6", "U+116C7", "U+116C8", "U+116C9", "U+11730",
      "U+11731", "U+11732", "U+11733", "U+11734", "U+11735", "U+11736",
      "U+11737", "U+11738", "U+11739", "U+118E0", "U+118E1", "U+118E2",
      "U+118E3", "U+118E4", "U+118E5", "U+118E6", "U+118E7", "U+118E8",
      "U+118E9", "U+11950", "U+11951", "U+11952", "U+11953", "U+11954",
      "U+11955", "U+11956", "U+11957", "U+11958", "U+11959", "U+11C50",
      "U+11C51", "U+11C52", "U+11C53", "U+11C54", "U+11C55", "U+11C56",
      "U+11C57", "U+11C58", "U+11C59", "U+11D50", "U+11D51", "U+11D52",
      "U+11D53", "U+11D54", "U+11D55", "U+11D56", "U+11D57", "U+11D58",
      "U+11D59", "U+11DA0", "U+11DA1", "U+11DA2", "U+11DA3", "U+11DA4",
      "U+11DA5", "U+11DA6", "U+11DA7", "U+11DA8", "U+11DA9", "U+16A60",
      "U+16A61", "U+16A62", "U+16A63", "U+16A64", "U+16A65", "U+16A66",
      "U+16A67", "U+16A68", "U+16A69", "U+16AC0", "U+16AC1", "U+16AC2",
      "U+16AC3", "U+16AC4", "U+16AC5", "U+16AC6", "U+16AC7", "U+16AC8",
      "U+16AC9", "U+16B50", "U+16B51", "U+16B52", "U+16B53", "U+16B54",
      "U+16B55", "U+16B56", "U+16B57", "U+16B58", "U+16B59", "U+1D7CE",
      "U+1D7CF", "U+1D7D0", "U+1D7D1", "U+1D7D2", "U+1D7D3", "U+1D7D4",
      "U+1D7D5", "U+1D7D6", "U+1D7D7", "U+1D7D8", "U+1D7D9", "U+1D7DA",
      "U+1D7DB", "U+1D7DC", "U+1D7DD", "U+1D7DE", "U+1D7DF", "U+1D7E0",
      "U+1D7E1", "U+1D7E2", "U+1D7E3", "U+1D7E4", "U+1D7E5", "U+1D7E6",
      "U+1D7E7", "U+1D7E8", "U+1D7E9", "U+1D7EA", "U+1D7EB", "U+1D7EC",
      "U+1D7ED", "U+1D7EE", "U+1D7EF", "U+1D7F0", "U+1D7F1", "U+1D7F2",
      "U+1D7F3", "U+1D7F4", "U+1D7F5", "U+1D7F6", "U+1D7F7", "U+1D7F8",
      "U+1D7F9", "U+1D7FA", "U+1D7FB", "U+1D7FC", "U+1D7FD", "U+1D7FE",
      "U+1D7FF", "U+1E140", "U+1E141", "U+1E142", "U+1E143", "U+1E144",
      "U+1E145", "U+1E146", "U+1E147", "U+1E148", "U+1E149", "U+1E2F0",
      "U+1E2F1", "U+1E2F2", "U+1E2F3", "U+1E2F4", "U+1E2F5", "U+1E2F6",
      "U+1E2F7", "U+1E2F8", "U+1E2F9", "U+1E950", "U+1E951", "U+1E952",
      "U+1E953", "U+1E954", "U+1E955", "U+1E956", "U+1E957", "U+1E958",
      "U+1E959", "U+1FBF0", "U+1FBF1", "U+1FBF2", "U+1FBF3", "U+1FBF4",
      "U+1FBF5", "U+1FBF6", "U+1FBF7", "U+1FBF8", "U+1FBF9" }
Digits == {"0", "1", "2", "3", "4", "5", "6", "7", "8", "9"} \cup UnicodeDigits
\* \s of a str pattern: every character str.isspace() accepts.
Whitespace ==
    { "\t", "\n", "U+000B", "\f", "\r", "U+001C", "U+001D", "U+001E",
      "U+001F", " ", "U+0085", "U+00A0", "U+1680", "U+2000", "U+2001",
      "U+2002", "U+2003", "U+2004", "U+2005", "U+2006", "U+2007", "U+2008",
      "U+2009", "U+200A", "U+2028", "U+2029", "U+202F", "U+205F", "U+3000" }

\* The first index from i on whose character is not in class (Len + 1 if none):
\* the end of a greedy run \s+ or \d+. The classes and the characters that
\* follow them in the pattern are disjoint, so backtracking adds no match.
RECURSIVE SkipClass(_, _, _)
SkipClass(line, i, class) ==
    IF i <= Len(line) /\ line[i] \in class
    THEN SkipClass(line, i + 1, class)
    ELSE i

StartsAt(line, i, tok) ==
    /\ i + Len(tok) - 1 <= Len(line)
    /\ SubSeq(line, i, i + Len(tok) - 1) = tok

\* "VERSION" in line
Contains(line, tok) == \E i \in 1..Len(line) : StartsAt(line, i, tok)

\* \d+\.\d+ at k: the index after it, or 0.
PairEnd(line, k) ==
    LET d1 == SkipClass(line, k, Digits)
        d2 == SkipClass(line, d1 + 1, Digits)
    IN  IF /\ d1 > k
           /\ d1 <= Len(line)
           /\ line[d1] = "."
           /\ d2 > d1 + 1
        THEN d2
        ELSE 0

\* \d+\.\d+\.\d+ at k: the index after it, or 0.
TripleEnd(line, k) ==
    LET d2 == PairEnd(line, k)
        d3 == SkipClass(line, d2 + 1, Digits)
    IN  IF /\ d2 > 0
           /\ d2 <= Len(line)
           /\ line[d2] = "."
           /\ d3 > d2 + 1
        THEN d3
        ELSE 0

\* The mutant of GroupEnd: a pattern that accepts two groups, VERSION\s+(\d+\.\d+).
GroupEnd_TwoGroups(line, k) == PairEnd(line, k)

\* The end of the captured group (\d+\.\d+\.\d+) at k.
GroupEnd(line, k) == TripleEnd(line, k)

\* VERSION\s+(\d+\.\d+\.\d+) matched at i: the captured group, or <<>>.
MatchAt(line, i) ==
    LET w == SkipClass(line, i + Len(VersionToken), Whitespace)
        e == GroupEnd(line, w)
    IN  IF /\ StartsAt(line, i, VersionToken)
           /\ w > i + Len(VersionToken)
           /\ e > 0
        THEN SubSeq(line, w, e - 1)
        ELSE <<>>

\* re.search(r"VERSION\s+(\d+\.\d+\.\d+)", line).group(1): the leftmost match,
\* or <<>> when re.search returns None.
ReSearch(line) ==
    LET at == {i \in 1..Len(line) : MatchAt(line, i) # <<>>}
    IN  IF at = {}
        THEN <<>>
        ELSE MatchAt(line, CHOOSE i \in at : \A j \in at : i <= j)

\* The loop of init over the lines: every matching line assigns self.version,
\* and the loop does not stop at a match.
RECURSIVE ScanLines(_, _)
ScanLines(lines, v) ==
    IF lines = <<>>
    THEN v
    ELSE LET line == Head(lines)
             m == ReSearch(line)
         IN  ScanLines(Tail(lines),
                       IF Contains(line, VersionToken) /\ m # <<>> THEN m ELSE v)

(***************************************************************************)
(* Inputs.                                                                 *)
(***************************************************************************)
Line1 == <<"V","E","R","S","I","O","N"," ","1",".","2",".","3">>
Line2 == <<"(","A"," ","V","E","R","S","I","O","N"," "," ","4",".","5",".","6",")">>
Line3 == <<"V","E","R","S","I","O","N"," ","3",".","2","0">>
Line4 == <<"V","E","R","S","I","O","N","1",".","2",".","3">>
Line5 == <<"#"," ","7",".","8",".","9">>
Line6 == <<"V","E","R","S","I","O","N"," ","1","0",".","2","0",".","3","0","x">>
Line7 == <<"v","e","r","s","i","o","n"," ","1",".","2",".","3">>
Line8 == <<"7",".","8",".","9"," ","V","E","R","S","I","O","N">>
Line9 == <<"V","E","R","S","I","O","N"," ","3",".","2"," ","V","E","R","S","I","O","N"," ","1",".","2",".","1">>
Line10 == <<"V","E","R","S","I","O","N","\f","1",".","2",".","3">>
Line11 == <<"V","E","R","S","I","O","N"," ","U+0661",".","U+0662",".","U+0663">>
Lines == {Line1, Line2, Line3, Line4, Line5, Line6, Line7, Line8, Line9, Line10, Line11}

RECURSIVE SeqsUpTo(_, _)
SeqsUpTo(S, n) ==
    IF n = 0
    THEN {<<>>}
    ELSE LET shorter == SeqsUpTo(S, n - 1)
         IN  shorter \cup {Append(s, x) : s \in shorter, x \in S}

Descriptors == SeqsUpTo(Lines, MaxLines)

\* The text generate() writes to CMakeLists_conan.txt.
MinimalCMake == <<
    <<"c","m","a","k","e","_","m","i","n","i","m","u","m","_","r","e","q","u","i","r","e","d","(","V","E","R","S","I","O","N"," ","3",".","2","0",")">>,
    <<>>,
    <<"p","r","o","j","e","c","t","(","A","r","f","f","F","i","l","e","s">>,
    <<" "," ","V","E","R","S","I","O","N"," ","1",".","2",".","1">>,
    <<" "," ","D","E","S","C","R","I","P","T","I","O","N"," ","\"","L","i","b","r","a","r","y"," ","t","o"," ","r","e","a","d"," ","A","r","f","f"," ","F","i","l","e","s"," ","a","n","d"," ","r","e","t","u","r","n"," ","S","T","L"," ","v","e","c","t","o","r","s"," ","w","i","t","h"," ","t","h","e"," ","d","a","t","a"," ","r","e","a","d",".","\"">>,
    <<" "," ","H","O","M","E","P","A","G","E","_","U","R","L"," ","\"","h","t","t","p","s",":","/","/","g","i","t","h","u","b",".","c","o","m","/","r","m","o","n","t","a","n","a","n","a","/","A","r","f","f","F","i","l","e","s","\"">>,
    <<" "," ","L","A","N","G","U","A","G","E","S"," ","C","X","X">>,
    <<")">>,
    <<>>,
    <<"#"," ","S","u","b","d","i","r","e","c","t","o","r","i","e","s">>,
    <<"a","d","d","_","s","u","b","d","i","r","e","c","t","o","r","y","(","c","o","n","f","i","g",")">> >>


\* The descriptors of the full recipe run.
SmallDescriptors == { <<Line1>>, <<Line3, Line2>>, <<Line5>> }

\* The current working directory of the process: the source folder itself, or
\* another folder, with or without a CMakeLists.txt of its own.
InSource == [inSource |-> TRUE, file |-> NoFile]
Elsewhere(file) == [inSource |-> FALSE, file |-> file]

\* The build-folder path handed to the recipe: unset (None), or a text.
PathChars == {"/", ".", "c", "b"}
Unset == [set |-> FALSE, chars |-> <<>>]
PathOf(chars) == [set |-> TRUE, chars |-> chars]
BuildFolderPaths == {Unset} \cup {PathOf(c) : c \in SeqsUpTo(PathChars, MaxPathLen)}
SmallBuildFolderPaths == { Unset, PathOf(<<"/", "b">>), PathOf(<<"/", ".", "c">>) }

(***************************************************************************)
(* layout.                                                                 *)
(***************************************************************************)
\* The source of layout() names no cache marker and tests none; ".c" stands
\* for the marker of the layout rule (any non-empty text gives the same
\* results).
CacheMarker == <<".", "c">>
HasMarker(path) == path.set /\ Contains(path.chars, CacheMarker)

\* layout() calls cmake_layout(self), whatever the build folder is.
LayoutSelect(path) == "cmake_layout"

(***************************************************************************)
(* build: the renames.                                                     *)
(***************************************************************************)
\* os.rename(a, b) on an existing a (POSIX: an existing b is replaced).
Rename(fs, a, b) == [fs EXCEPT ![b] = fs[a], ![a] = NoFile]

\* Lines 78-79: the renames done before one raises FileNotFoundError (0..2).
Swap(fs) ==
    IF ~fs[CMakeLists].present
    THEN [fs |-> fs, done |-> 0]
    ELSE LET f1 == Rename(fs, CMakeLists, CMakeListsBackup)
         IN  IF ~f1[CMakeListsConan].present
             THEN [fs |-> f1, done |-> 1]
             ELSE [fs |-> Rename(f1, CMakeListsConan, CMakeLists), done |-> 2]

\* A mutant of Restore: the backup is not renamed back.
Restore_NoBackupRename(fs) ==
    IF ~fs[CMakeLists].present
    THEN [fs |-> fs, done |-> 0]
    ELSE [fs |-> Rename(fs, CMakeLists, CMakeListsConan), done |-> 2]

\* A mutant of Restore: the backup is renamed over the minimal descriptor in
\* place, which is not moved back to its own name first.
Restore_NoMinimalRename(fs) ==
    IF ~fs[CMakeListsBackup].present
    THEN [fs |-> fs, done |-> 1]
    ELSE [fs |-> Rename(fs, CMakeListsBackup, CMakeLists), done |-> 2]

\* Lines 87-88, the finally block: the renames done before one raises (0..2).
Restore(fs) ==
    IF ~fs[CMakeLists].present
    THEN [fs |-> fs, done |-> 0]
    ELSE LET f1 == Rename(fs, CMakeLists, CMakeListsConan)
         IN  IF ~f1[CMakeListsBackup].present
             THEN [fs |-> f1, done |-> 1]
             ELSE [fs |-> Rename(f1, CMakeListsBackup, CMakeLists), done |-> 2]

\* A mutant of BuildExit: the error of configure is swallowed.
BuildExit_Swallow(configure, restored) ==
    IF restored < 2
    THEN [result |-> "FileNotFoundError", raisedAt |-> "restore"]
    ELSE [result |-> "ok", raisedAt |-> "none"]

\* A mutant of BuildExit: the error of configure is kept over one of restore.
BuildExit_ConfigureFirst(configure, restored) ==
    IF configure = "failed"
    THEN [result |-> "ConanException", raisedAt |-> "configure"]
    ELSE IF restored < 2
    THEN [result |-> "FileNotFoundError", raisedAt |-> "restore"]
    ELSE [result |-> "ok", raisedAt |-> "none"]

\* How try/finally leaves build(): an exception raised in the finally block
\* replaces the one in flight; otherwise the one in flight goes on.
BuildExit(configure, restored) ==
    IF restored < 2
    THEN [result |-> "FileNotFoundError", raisedAt |-> "restore"]
    ELSE IF configure = "failed"
    THEN [result |-> "ConanException", raisedAt |-> "configure"]
    ELSE [result |-> "ok", raisedAt |-> "none"]

(***************************************************************************)
(* package: conan.tools.files.copy.                                        *)
(***************************************************************************)
\* str.lower() on the names of the model.
Lower(s) ==
    CASE s = "ArffFiles.hpp" -> "arfffiles.hpp"
      [] s = "arffFiles_config.h" -> "arfffiles_config.h"
      [] s = "LICENSE" -> "license"
      [] s = "README.md" -> "readme.md"
      [] s = "Other.hpp" -> "other.hpp"
      [] s = "CMakeLists.txt" -> "cmakelists.txt"
      [] s = "CMakeLists_conan.txt" -> "cmakelists_conan.txt"
      [] s = "CMakeLists_backup.txt" -> "cmakelists_backup.txt"
      [] s = "CMakeCache.txt" -> "cmakecache.txt"
      [] s = "Catch2Config.cmake" -> "catch2config.cmake"
      [] OTHER -> s

\* fnmatch of a relative path against a pattern without wildcards and without
\* separators, as copy() calls it with its default ignore_case=True: both
\* sides are lowered, and the whole relative path must equal the pattern.
FnMatch(rel, pattern) == Len(rel) = 1 /\ Lower(rel[1]) = Lower(pattern)

IsUnder(p, dir) == Len(p) > Len(dir) /\ SubSeq(p, 1, Len(dir)) = dir
RelTo(p, dir) == SubSeq(p, Len(dir) + 1, Len(p))
Basename(p) == p[Len(p)]

\* The files copy() finds: the walk of folder/dir (nothing when dir does not
\* exist), filtered by the pattern.
FilesToCopy(pattern, folder, dir) ==
    { p \in DOMAIN folder :
        /\ folder[p].present
        /\ IsUnder(p, dir)
        /\ FnMatch(RelTo(p, dir), pattern) }

\* copy(self, pattern, src=folder/dir, dst=dst, keep_path=False): each file
\* found lands in dst under its own base name; finding none is no error.
Copy(pattern, folder, dir, dst) ==
    LET files == FilesToCopy(pattern, folder, dir)
    IN  [n \in DOMAIN dst |->
            IF \E p \in files : Basename(p) = n
            THEN folder[CHOOSE p \in files : Basename(p) = n]
            ELSE dst[n]]

\* The four copy() calls of package().
PackageFiles(src, bld, pkg) ==
    LET p1 == Copy("ArffFiles.hpp", src, <<>>, pkg)
        p2 == Copy("arffFiles_config.h", bld, <<"configured_files", "include">>, p1)
        p3 == Copy("LICENSE", src, <<>>, p2)
    IN  Copy("README.md", src, <<>>, p3)


(***************************************************************************)
(* The state.                                                              *)
(***************************************************************************)
VARIABLES
    source_folder,    \* relative path -> file, the files of self.source_folder
    build_folder,     \* relative path -> file, the files of self.build_folder
    package_folder,   \* name -> file, the files at the root of self.package_folder
    build_path,       \* the build-folder path the recipe is given
    version,          \* self.version
    initResult,       \* how init() ended: "none" before it ran
    layoutSel,        \* the layout layout() applied: "none" before it ran
    cwd,              \* the current working directory, where init() reads
    pc,               \* the position in build(): "idle" outside of it
    run,              \* the current or last run of build()
    packageResult,    \* how package() ended: "none" before it ran
    cpp_info          \* self.cpp_info as package_info() sets it

vars == << cwd, source_folder, build_folder, package_folder, build_path, version,
           initResult, layoutSel, pc, run, packageResult, cpp_info >>

NoRun ==
    [ before |-> NoFile, beforeConan |-> NoFile, swapped |-> 0,
      configure |-> "none", restored |-> 0, result |-> "none", raisedAt |-> "none" ]

\* The optional files of the source folder an initial state may hold.
OptionalSources == { <<"ArffFiles.hpp">>, <<"README.md">>, <<"readme.md">>, <<"Other.hpp">> }

InitialSource(descriptor, present) ==
    [ p \in SourcePaths |->
        IF p = CMakeLists THEN File(descriptor)
        ELSE IF p \in present \cup { <<"LICENSE">>, <<"config", "CMakeLists.txt">> }
        THEN File(Opaque(Basename(p)))
        ELSE NoFile ]

\* The state of a recipe object after construction, on a source folder that
\* holds the descriptor and the files in present.
InitWith(descriptor, present, path, dir) ==
    /\ cwd = dir
    /\ source_folder = InitialSource(descriptor, present)
    /\ build_folder = [p \in BuildPaths |-> NoFile]
    /\ package_folder = [n \in PackageNames |-> NoFile]
    /\ build_path = path
    /\ version = Placeholder
    /\ initResult = "none"
    /\ layoutSel = "none"
    /\ pc = "idle"
    /\ run = NoRun
    /\ packageResult = "none"
    /\ cpp_info = [bindirs |-> <<"bin">>, libdirs |-> <<"lib">>, includedirs |-> <<"include">>]

Init ==
    \E d \in SmallDescriptors, present \in SUBSET OptionalSources,
       path \in SmallBuildFolderPaths,
       dir \in {InSource, Elsewhere(File(<<Line2>>))} :
        InitWith(d, present, path, dir)

(***************************************************************************)
(* The recipe methods.                                                     *)
(***************************************************************************)
\* The file open("CMakeLists.txt", "r") names: the path is relative, so it is
\* the CMakeLists.txt of the current working directory.
CwdCMakeLists == IF cwd.inSource THEN source_folder[CMakeLists] ELSE cwd.file

\* init(), lines 21-30.
RecipeInit ==
    /\ pc = "idle"
    /\ IF CwdCMakeLists.present
       THEN /\ version' = ScanLines(CwdCMakeLists.text, version)
            /\ initResult' = "ok"
       ELSE /\ version' = version
            /\ initResult' = "FileNotFoundError"
    /\ UNCHANGED << cwd, source_folder, build_folder, package_folder, build_path,
                    layoutSel, pc, run, packageResult, cpp_info >>

\* layout(), lines 36-39.
Layout ==
    /\ pc = "idle"
    /\ layoutSel' = LayoutSelect(build_path)
    /\ UNCHANGED << cwd, source_folder, build_folder, package_folder, build_path,
                    version, initResult, pc, run, packageResult, cpp_info >>

\* generate(), lines 41-65: the toolchain and dependency files, then the
\* minimal descriptor written into the source folder.
Generate ==
    /\ pc = "idle"
    /\ build_folder' =
         [build_folder EXCEPT
            ![<<"generators", "conan_toolchain.cmake">>] = File(Opaque("conan_toolchain.cmake")),
            ![<<"generators", "Catch2Config.cmake">>] = File(Opaque("Catch2Config.cmake"))]
    /\ source_folder' = [source_folder EXCEPT ![CMakeListsConan] = File(MinimalCMake)]
    /\ UNCHANGED << cwd, package_folder, build_path, version, initResult, layoutSel,
                    pc, run, packageResult, cpp_info >>

\* build(), lines 73-79: the swap, outside of the try statement. A rename
\* that fails leaves build() at once with FileNotFoundError.
BuildSwap ==
    /\ pc = "idle"
    /\ LET s == Swap(source_folder)
           started == [NoRun EXCEPT !.before = source_folder[CMakeLists],
                                    !.beforeConan = source_folder[CMakeListsConan],
                                    !.swapped = s.done]
       IN  /\ source_folder' = s.fs
           /\ IF s.done = 2
              THEN /\ pc' = "configure"
                   /\ run' = [started EXCEPT !.result = "running"]
              ELSE /\ pc' = "idle"
                   /\ run' = [started EXCEPT !.result = "FileNotFoundError",
                                             !.raisedAt = "swap"]
    /\ UNCHANGED << cwd, build_folder, package_folder, build_path, version,
                    initResult, layoutSel, packageResult, cpp_info >>

\* build(), lines 82-83: cmake.configure(), an external process that succeeds
\* (and generates the configuration header) or fails (ConanException).
BuildConfigure ==
    /\ pc = "configure"
    /\ \E ok \in BOOLEAN :
         /\ run' = [run EXCEPT !.configure = IF ok THEN "ok" ELSE "failed"]
         /\ build_folder' =
              IF ok
              THEN [build_folder EXCEPT
                      ![ConfigHeader] = File(Opaque("arffFiles_config.h")),
                      ![<<"CMakeCache.txt">>] = File(Opaque("CMakeCache.txt"))]
              ELSE build_folder
    /\ pc' = "restore"
    /\ UNCHANGED << cwd, source_folder, package_folder, build_path, version,
                    initResult, layoutSel, packageResult, cpp_info >>

\* build(), lines 85-88: the finally block, and the way out of build().
BuildRestore ==
    /\ pc = "restore"
    /\ LET r == Restore(source_folder)
           exit == BuildExit(run.configure, r.done)
       IN  /\ source_folder' = r.fs
           /\ run' = [run EXCEPT !.restored = r.done,
                                 !.result = exit.result,
                                 !.raisedAt = exit.raisedAt]
    /\ pc' = "idle"
    /\ UNCHANGED << cwd, build_folder, package_folder, build_path, version,
                    initResult, layoutSel, packageResult, cpp_info >>

\* package(), lines 90-121.
Package ==
    /\ pc = "idle"
    /\ package_folder' = PackageFiles(source_folder, build_folder, package_folder)
    /\ packageResult' = "ok"
    /\ UNCHANGED << cwd, source_folder, build_folder, build_path, version,
                    initResult, layoutSel, pc, run, cpp_info >>

\* package_info(), lines 123-128.
PackageInfo ==
    /\ pc = "idle"
    /\ cpp_info' = [bindirs |-> <<>>, libdirs |-> <<>>, includedirs |-> <<".">>]
    /\ UNCHANGED << cwd, source_folder, build_folder, package_folder, build_path,
                    version, initResult, layoutSel, pc, run, packageResult >>

\* Another process removes a descriptor of the source folder while
\* cmake.configure() runs: build() holds no lock on the source folder.
ExternalRemove ==
    /\ pc = "configure"
    /\ \E p \in {CMakeLists, CMakeListsBackup} :
         /\ source_folder[p].present
         /\ source_folder' = [source_folder EXCEPT ![p] = NoFile]
    /\ UNCHANGED << cwd, build_folder, package_folder, build_path, version,
                    initResult, layoutSel, pc, run, packageResult, cpp_info >>

Next ==
    \/ RecipeInit
    \/ Layout
    \/ Generate
    \/ BuildSwap
    \/ BuildConfigure
    \/ BuildRestore
    \/ Package
    \/ PackageInfo

\* The recipe alone on its source folder.
Spec == Init /\ [][Next]_vars

\* The recipe with another process acting on the source folder.
InitEnv ==
    \E d \in {<<Line1>>, <<Line5>>}, present \in SUBSET {<<"README.md">>} :
        InitWith(d, present \cup {<<"ArffFiles.hpp">>}, Unset, InSource)
NextEnv == Next \/ ExternalRemove
SpecEnv == InitEnv /\ [][NextEnv]_vars

\* init() on every descriptor of up to MaxLines lines, in the source folder
\* or in another working directory (the source folder then holds another
\* descriptor), and in a working directory without a descriptor.
InitVersion ==
    \/ \E d \in Descriptors :
         InitWith(d, {<<"ArffFiles.hpp">>, <<"README.md">>}, Unset, InSource)
    \/ \E d \in Descriptors :
         InitWith(<<Line1>>, {<<"ArffFiles.hpp">>, <<"README.md">>}, Unset,
                  Elsewhere(File(d)))
    \/ InitWith(<<Line1>>, {<<"ArffFiles.hpp">>, <<"README.md">>}, Unset,
                Elsewhere(NoFile))
SpecVersion == InitVersion /\ [][RecipeInit]_vars

\* layout() on every build-folder path of up to MaxPathLen characters.
InitLayout ==
    \E path \in BuildFolderPaths :
        InitWith(<<Line1>>, {<<"ArffFiles.hpp">>, <<"README.md">>}, path, InSource)
SpecLayout == InitLayout /\ [][Layout]_vars


(***************************************************************************)
(* The claims.                                                             *)
(***************************************************************************)
\* build() has been called and has ended, normally or with an exception.
BuildEnded == pc = "idle" /\ run.result \notin {"none", "running"}

\* The run of build() started with CMakeLists.txt and CMakeLists_conan.txt.
StartedWithBoth == run.before.present /\ run.beforeConan.present

\* C1: after a run of build() that started with CMakeLists.txt and
\* CMakeLists_conan.txt in the source folder, whether configure succeeded or
\* failed, CMakeLists.txt holds the content it held when build() started.
C1_RoundTrip ==
    (BuildEnded /\ StartedWithBoth) => source_folder[CMakeLists] = run.before

C1_Witness ==
    /\ BuildEnded
    /\ StartedWithBoth
    /\ run.configure = "failed"
    /\ run.before.text # MinimalCMake
    /\ source_folder[CMakeLists] = run.before

\* C2: a failure of configure is not reported before the restore: while the
\* failure is pending build() is in its finally block, and once build() has
\* ended both restore renames have run and the caller has the configure
\* error; build() never ends normally after a failed configure.
C2_RestoreBeforeError ==
    run.configure = "failed" =>
        \/ pc = "restore" /\ run.result = "running" /\ run.restored = 0
        \/ /\ pc = "idle"
           /\ run.restored = 2
           /\ run.result = "ConanException"
           /\ run.raisedAt = "configure"

C2_Witness ==
    /\ BuildEnded
    /\ run.configure = "failed"
    /\ run.restored = 2
    /\ run.result = "ConanException"
    /\ ~source_folder[CMakeListsBackup].present

\* The lines init() takes a version from, and the version of the first one.
MatchingLines(lines) ==
    { i \in 1..Len(lines) :
        Contains(lines[i], VersionToken) /\ ReSearch(lines[i]) # <<>> }
FirstMatch(lines) ==
    LET M == MatchingLines(lines)
    IN  ReSearch(lines[CHOOSE i \in M : \A j \in M : i <= j])

\* C3: when two or more lines of the descriptor match and carry different
\* triples, the version init() resolves is the triple of the earliest one.
C3_FirstMatchWins ==
    LET lines == CwdCMakeLists.text
        M == MatchingLines(lines)
    IN  ( /\ initResult = "ok"
          /\ \E i, j \in M : ReSearch(lines[i]) # ReSearch(lines[j]) )
        => version = FirstMatch(lines)

\* A line that contains VERSION and, anywhere after it, a three-integer
\* dotted triple.
HasVersionThenTriple(line) ==
    \E i \in 1..Len(line), k \in 1..Len(line) :
        /\ StartsAt(line, i, VersionToken)
        /\ k >= i + Len(VersionToken)
        /\ TripleEnd(line, k) > 0

NoVersionTriple(lines) ==
    \A i \in 1..Len(lines) : ~HasVersionThenTriple(lines[i])

\* C4: for a descriptor (the CMakeLists.txt init() opens) none of whose lines
\* contains VERSION followed by a three-integer dotted triple, init() ends
\* without an error and the version is still the placeholder X.X.X.
C4_SilentFallback ==
    ( /\ initResult # "none"
      /\ CwdCMakeLists.present
      /\ NoVersionTriple(CwdCMakeLists.text) )
        => (initResult = "ok" /\ version = Placeholder)

C4_Witness ==
    LET lines == CwdCMakeLists.text
    IN  /\ initResult = "ok"
        /\ CwdCMakeLists.present
        /\ NoVersionTriple(lines)
        /\ \E i \in 1..Len(lines) : lines[i] = Line3
        /\ version = Placeholder

\* C5: layout() selects the cache layout if and only if the build-folder path
\* contains the cache marker, and the flat layout for every other path, an
\* unset one included.
C5_LayoutByMarker ==
    layoutSel # "none" => (layoutSel = "cmake_layout" <=> HasMarker(build_path))

\* The artifacts package() declares.
DeclaredArtifacts == {"ArffFiles.hpp", "arffFiles_config.h", "LICENSE", "README.md"}

\* C6: the package folder holds only files named as the declared artifacts.
C6_OnlyDeclared ==
    \A n \in PackageNames : package_folder[n].present => n \in DeclaredArtifacts

\* C7: package() never ends normally with a declared artifact absent from
\* the package folder.
C7_MissingSourceFails ==
    packageResult = "ok" => \A n \in DeclaredArtifacts : package_folder[n].present

\* C8: when a restore rename fails, build() ends with the error of the
\* restore, not with the configure error and not normally, whether configure
\* succeeded or failed.
C8_RestoreFailureReported ==
    (BuildEnded /\ run.swapped = 2 /\ run.restored < 2)
        => (run.result = "FileNotFoundError" /\ run.raisedAt = "restore")

C8_Witness ==
    /\ BuildEnded
    /\ run.configure = "failed"
    /\ run.restored < 2
    /\ run.result = "FileNotFoundError"
    /\ run.raisedAt = "restore"

\* C9 as stated, for a run that started with both descriptors: after build()
\* has ended the source folder holds no minimal descriptor, under neither
\* name, and no backup.
C9_NoMinimalLeft ==
    (BuildEnded /\ StartedWithBoth) =>
        /\ ~source_folder[CMakeListsConan].present
        /\ ~source_folder[CMakeListsBackup].present
        /\ source_folder[CMakeLists] # File(MinimalCMake)

\* C9 as amended: after a run of build() that started with both descriptors,
\* no backup is left and CMakeLists.txt holds the original again, while the
\* minimal descriptor stays in the source folder as CMakeLists_conan.txt.
C9_MinimalKeptUnderOwnName ==
    (BuildEnded /\ StartedWithBoth) =>
        /\ ~source_folder[CMakeListsBackup].present
        /\ source_folder[CMakeLists] = run.before
        /\ source_folder[CMakeListsConan] = File(MinimalCMake)

C9_Witness ==
    /\ BuildEnded
    /\ StartedWithBoth
    /\ run.configure = "ok"
    /\ source_folder[CMakeListsConan] = File(MinimalCMake)
    /\ ~source_folder[CMakeListsBackup].present

\* C10: on every exit of build() that started with the original descriptor,
\* also one caused by a failed swap rename, the original descriptor is at
\* its original name.
C10_SwapAtomic ==
    (BuildEnded /\ run.before.present) => source_folder[CMakeLists] = run.before

====
